---- MODULE Spec2Model ----
(***************************************************************************)
(* Model of scripts/parser.js: the combat-log ingestion engine (line       *)
(* classifier, entity registry, global counters, time bounds), the time    *)
(* filter, the rankings and the entity details it renders, and the         *)
(* handlers of the page (parse button click, FileReader onload, apply and  *)
(* reset of the time filter, show entity details).                         *)
(*                                                                         *)
(* Strings are sequences of one-character strings, so that trim, split     *)
(* and Number are computed as the code computes them.  JavaScript values   *)
(* that may be null, NaN, a number or a string are tagged records:         *)
(* [null |-> TRUE], [nan |-> TRUE], [num |-> n], [str |-> s].              *)
(***************************************************************************)
EXTENDS Integers, Sequences, FiniteSets, TLC

VARIABLES
    entities,     \* the Map `entities`: sequence of entity records, insertion order
    globalStats,  \* totalLines, parsedLines, skippedLines, byType
    timeBounds,   \* min, max (null or number)
    timeFilter,   \* enabled, start, end
    pending,      \* FileReaders whose readAsText has started and not completed
    pc,           \* position of the running onload handler: "idle" or "loop"
    remaining,    \* lines of the text the for-loop of onload has not visited yet
    line,         \* the loop variable `line` of onload
    fed,          \* history: lines visited by onload loops since the last reset
    nonBlank,     \* history: of those, the lines that are not all whitespace
    parsedTs,     \* history: timestamps of the lines counted as parsed since the last reset
    alone,        \* history: per onload since the last reset, what its lines give from the empty state
    reload,       \* history: the last click found a completed load and no read in flight
    prior,        \* history: whether a click left the state it found, while its read is the only one in flight
    tables,       \* the three ranking containers of the page, as last rendered
    details       \* the entity-details hint and container, as last rendered

vars == <<entities, globalStats, timeBounds, timeFilter, pending, pc, remaining,
          line, fed, nonBlank, parsedTs, alone, reload, prior, tables, details>>

---------------------------------------------------------------------------
(* Bounds of the model.                                                    *)

\* lines fed to the engine between two resets (over all texts read in between)
MaxLines == 2
\* file reads in flight at once
MaxPending == 2

---------------------------------------------------------------------------
(* JavaScript values.                                                      *)

Null == [null |-> TRUE]
NaN == [nan |-> TRUE]
NumV(n) == [num |-> n]
StrV(s) == [str |-> s]

\* ToNumber as the relational operators apply it: null is 0
ToNumber(v) == IF v = Null THEN 0 ELSE v.num

---------------------------------------------------------------------------
(* String functions.                                                       *)

Whitespace == {" ", "\t", "\r"}

DigitChars == {"0", "1", "2", "3", "4", "5", "6", "7", "8", "9"}

DigitVal(c) ==
    CASE c = "0" -> 0 [] c = "1" -> 1 [] c = "2" -> 2 [] c = "3" -> 3
      [] c = "4" -> 4 [] c = "5" -> 5 [] c = "6" -> 6 [] c = "7" -> 7
      [] c = "8" -> 8 [] c = "9" -> 9

RECURSIVE TrimStart(_)
TrimStart(s) ==
    IF s # <<>> /\ Head(s) \in Whitespace THEN TrimStart(Tail(s)) ELSE s

RECURSIVE TrimEnd(_)
TrimEnd(s) ==
    IF s # <<>> /\ s[Len(s)] \in Whitespace
    THEN TrimEnd(SubSeq(s, 1, Len(s) - 1))
    ELSE s

\* String.prototype.trim
Trim(s) == TrimEnd(TrimStart(s))

\* String.prototype.split(","): the fields between the commas, at least one
RECURSIVE Split(_)
Split(s) ==
    IF \E i \in 1..Len(s) : s[i] = ","
    THEN LET i == CHOOSE k \in 1..Len(s) :
                      s[k] = "," /\ \A j \in 1..(k - 1) : s[j] # ","
         IN <<SubSeq(s, 1, i - 1)>> \o Split(SubSeq(s, i + 1, Len(s)))
    ELSE <<s>>

\* Array.prototype.map(p => p.trim())
MapTrim(parts) == [i \in 1..Len(parts) |-> Trim(parts[i])]

RECURSIVE DecimalValue(_)
DecimalValue(s) ==
    IF s = <<>> THEN 0
    ELSE 10 * DecimalValue(SubSeq(s, 1, Len(s) - 1)) + DigitVal(s[Len(s)])

IsDigits(s) == s # <<>> /\ \A i \in 1..Len(s) : s[i] \in DigitChars

\* Number(string), for strings of digits, "-", "+", whitespace and letters other
\* than those of the numeric literals (no ".", exponent, radix prefix, Infinity):
\* whitespace is stripped, the empty string is 0, an optionally signed digit
\* string is its decimal value, and anything else is NaN.
Number(s) ==
    LET t == Trim(s) IN
    IF t = <<>> THEN NumV(0)
    ELSE IF Head(t) = "-"
         THEN IF IsDigits(Tail(t)) THEN NumV(0 - DecimalValue(Tail(t))) ELSE NaN
    ELSE IF Head(t) = "+"
         THEN IF IsDigits(Tail(t)) THEN NumV(DecimalValue(Tail(t))) ELSE NaN
    ELSE IF IsDigits(t) THEN NumV(DecimalValue(t)) ELSE NaN

---------------------------------------------------------------------------
(* Core data structures.  The engine operators below work on a record      *)
(* [entities, globalStats, timeBounds] standing for the three globals.     *)

sDMG == <<"D", "M", "G">>
sDOT == <<"D", "O", "T">>
sHEAL == <<"H", "E", "A", "L">>
sENERGIZE == <<"E", "N", "E", "R", "G", "I", "Z", "E">>
sBUFF == <<"B", "U", "F", "F">>
sDEBUFF == <<"D", "E", "B", "U", "F", "F">>

NumericTypes == {sDMG, sDOT, sHEAL, sENERGIZE}
EffectTypes == {sBUFF, sDEBUFF}
Types == NumericTypes \cup EffectTypes

\* the initial value of globalStats, and its value after the reset of a click
InitGlobalStats ==
    [totalLines |-> 0, parsedLines |-> 0, skippedLines |-> 0,
     byType |-> [t \in Types |-> 0]]

InitTimeBounds == [min |-> Null, max |-> Null]

InitTimeFilter == [enabled |-> FALSE, start |-> Null, end |-> Null]

EmptyEngine ==
    [entities |-> <<>>, globalStats |-> InitGlobalStats, timeBounds |-> InitTimeBounds]

\* the object getEntity registers for a name it has not seen
NewEntity(name) ==
    [name |-> name,
     damageDone |-> 0, healingDone |-> 0, damageReceived |-> 0,
     damageEvents |-> <<>>, healEvents |-> <<>>, damageTakenEvents |-> <<>>,
     buffsApplied |-> <<>>, debuffsApplied |-> <<>>,
     buffsReceived |-> <<>>, debuffsReceived |-> <<>>]

\* entities.has(name)
Has(ents, name) == \E i \in 1..Len(ents) : ents[i].name = name

\* the position of name's entry in the map
IndexOf(ents, name) == CHOOSE i \in 1..Len(ents) : ents[i].name = name

\* a variant without the test for a registered name: the entry of a known
\* name is replaced by a new object
getEntityAlwaysNew(ents, name) ==
    IF Has(ents, name) THEN [ents EXCEPT ![IndexOf(ents, name)] = NewEntity(name)]
    ELSE Append(ents, NewEntity(name))

\* the map after getEntity(name): a new entry goes last, an old one stays as it is
getEntity(ents, name) ==
    IF Has(ents, name) THEN ents ELSE Append(ents, NewEntity(name))

\* a variant that joins the two tests with `else`: max is left alone whenever
\* min is set
updateTimeBoundsElseIf(tb, timestamp) ==
    IF tb.min = Null \/ timestamp < ToNumber(tb.min)
    THEN [min |-> NumV(timestamp), max |-> tb.max]
    ELSE IF tb.max = Null \/ timestamp > ToNumber(tb.max)
    THEN [min |-> tb.min, max |-> NumV(timestamp)]
    ELSE tb

updateTimeBounds(tb, timestamp) ==
    LET min1 == IF tb.min = Null \/ timestamp < ToNumber(tb.min)
                THEN NumV(timestamp) ELSE tb.min
        max1 == IF tb.max = Null \/ timestamp > ToNumber(tb.max)
                THEN NumV(timestamp) ELSE tb.max
    IN [min |-> min1, max |-> max1]

---------------------------------------------------------------------------
(* Parsing logic.                                                          *)

\* globalStats.skippedLines++; return
Skip(st) == [st EXCEPT !.globalStats.skippedLines = @ + 1]

\* parsedLines++, byType[type]++, updateTimeBounds(timestamp)
CountParsed(st, timestamp, type) ==
    [st EXCEPT !.globalStats.parsedLines = @ + 1,
               !.globalStats.byType[type] = @ + 1,
               !.timeBounds = updateTimeBounds(@, timestamp)]

\* a variant that keeps the sign of the amount
AbsKeepsSign(n) == n

\* amountRaw < 0 ? -amountRaw : amountRaw, and Math.abs(amountRaw)
Abs(n) == IF n < 0 THEN 0 - n ELSE n

\* a variant that leaves the total of the target alone
AddDamageSourceOnly(ents, si, ti, dmgAmount) ==
    [ents EXCEPT ![si].damageDone = @ + dmgAmount]

\* source.damageDone += dmgAmount; target.damageReceived += dmgAmount
AddDamage(ents, si, ti, dmgAmount) ==
    LET e1 == [ents EXCEPT ![si].damageDone = @ + dmgAmount]
    IN [e1 EXCEPT ![ti].damageReceived = @ + dmgAmount]

\* a variant that appends the damage-taken event to the lists of the source
RecordDamageTakenOnSource(ents, timestamp, type, parts, amountRaw) ==
    LET sourceName == parts[3]
        dmgAmount == Abs(amountRaw)
        si == IndexOf(ents, sourceName)
        ti == IndexOf(ents, parts[4])
        dmgEvent == [timestamp |-> timestamp, type |-> type, target |-> parts[4],
                     skill |-> parts[5], amount |-> dmgAmount,
                     pool |-> parts[7], hitType |-> parts[8]]
        dmgTakenEvent == [timestamp |-> timestamp, type |-> type, source |-> sourceName,
                          skill |-> parts[5], amount |-> dmgAmount,
                          pool |-> parts[7], hitType |-> parts[8]]
        e2 == AddDamage(ents, si, ti, dmgAmount)
        e3 == [e2 EXCEPT ![si].damageEvents = Append(@, dmgEvent)]
    IN [e3 EXCEPT ![si].damageTakenEvents = Append(@, dmgTakenEvent)]

\* a variant whose damage-taken event carries the amount as the line has it
RecordDamageTakenRaw(ents, timestamp, type, parts, amountRaw) ==
    LET sourceName == parts[3]
        targetName == parts[4]
        dmgAmount == Abs(amountRaw)
        si == IndexOf(ents, sourceName)
        ti == IndexOf(ents, targetName)
        dmgEvent == [timestamp |-> timestamp, type |-> type, target |-> targetName,
                     skill |-> parts[5], amount |-> dmgAmount,
                     pool |-> parts[7], hitType |-> parts[8]]
        dmgTakenEvent == [timestamp |-> timestamp, type |-> type, source |-> sourceName,
                          skill |-> parts[5], amount |-> amountRaw,
                          pool |-> parts[7], hitType |-> parts[8]]
        e2 == AddDamage(ents, si, ti, dmgAmount)
        e3 == [e2 EXCEPT ![si].damageEvents = Append(@, dmgEvent)]
    IN [e3 EXCEPT ![ti].damageTakenEvents = Append(@, dmgTakenEvent)]

\* the DMG/DOT branch of parseNumericEvent
RecordDamage(ents, timestamp, type, parts, amountRaw) ==
    LET sourceName == parts[3]
        targetName == parts[4]
        dmgAmount == Abs(amountRaw)
        si == IndexOf(ents, sourceName)
        ti == IndexOf(ents, targetName)
        dmgEvent == [timestamp |-> timestamp, type |-> type, target |-> targetName,
                     skill |-> parts[5], amount |-> dmgAmount,
                     pool |-> parts[7], hitType |-> parts[8]]
        dmgTakenEvent == [timestamp |-> timestamp, type |-> type, source |-> sourceName,
                          skill |-> parts[5], amount |-> dmgAmount,
                          pool |-> parts[7], hitType |-> parts[8]]
        e2 == AddDamage(ents, si, ti, dmgAmount)
        e3 == [e2 EXCEPT ![si].damageEvents = Append(@, dmgEvent)]
    IN [e3 EXCEPT ![ti].damageTakenEvents = Append(@, dmgTakenEvent)]

\* a variant that records a heal for its target as well
RecordHealAlsoTarget(ents, timestamp, type, parts, amountRaw) ==
    LET healAmount == Abs(amountRaw)
        si == IndexOf(ents, parts[3])
        ti == IndexOf(ents, parts[4])
        healEvent == [timestamp |-> timestamp, type |-> type, target |-> parts[4],
                      skill |-> parts[5], amount |-> healAmount,
                      pool |-> parts[7], hitType |-> parts[8]]
        e1 == [ents EXCEPT ![si].healingDone = @ + healAmount]
        e2 == [e1 EXCEPT ![si].healEvents = Append(@, healEvent)]
    IN IF ti = si THEN e2
       ELSE [e2 EXCEPT ![ti].healingDone = @ + healAmount,
                       ![ti].healEvents = Append(@, healEvent)]

\* a variant that stores the amount of a heal with its sign
RecordHealKeepsSign(ents, timestamp, type, parts, amountRaw) ==
    LET si == IndexOf(ents, parts[3])
        healEvent == [timestamp |-> timestamp, type |-> type, target |-> parts[4],
                      skill |-> parts[5], amount |-> amountRaw,
                      pool |-> parts[7], hitType |-> parts[8]]
        e1 == [ents EXCEPT ![si].healingDone = @ + amountRaw]
    IN [e1 EXCEPT ![si].healEvents = Append(@, healEvent)]

\* the HEAL branch of parseNumericEvent
RecordHeal(ents, timestamp, type, parts, amountRaw) ==
    LET sourceName == parts[3]
        healAmount == Abs(amountRaw)
        si == IndexOf(ents, sourceName)
        healEvent == [timestamp |-> timestamp, type |-> type, target |-> parts[4],
                      skill |-> parts[5], amount |-> healAmount,
                      pool |-> parts[7], hitType |-> parts[8]]
        e1 == [ents EXCEPT ![si].healingDone = @ + healAmount]
    IN [e1 EXCEPT ![si].healEvents = Append(@, healEvent)]

\* a variant that stores an ENERGIZE event like a heal
StoreNumericEventEnergizeAsHeal(st, timestamp, type, parts, amountRaw) ==
    LET s1 == CountParsed(st, timestamp, type)
        ents == getEntity(getEntity(s1.entities, parts[3]), parts[4])
    IN IF type \in {sDMG, sDOT}
       THEN [s1 EXCEPT !.entities = RecordDamage(ents, timestamp, type, parts, amountRaw)]
       ELSE [s1 EXCEPT !.entities = RecordHeal(ents, timestamp, type, parts, amountRaw)]

\* parseNumericEvent from the count of the line on, the amount being a number
StoreNumericEvent(st, timestamp, type, parts, amountRaw) ==
    LET s1 == CountParsed(st, timestamp, type)
        ents == getEntity(getEntity(s1.entities, parts[3]), parts[4])
    IN IF type \in {sDMG, sDOT}
       THEN [s1 EXCEPT !.entities = RecordDamage(ents, timestamp, type, parts, amountRaw)]
       ELSE IF type = sHEAL
       THEN [s1 EXCEPT !.entities = RecordHeal(ents, timestamp, type, parts, amountRaw)]
       ELSE [s1 EXCEPT !.entities = ents]

\* a variant that looks up source and target before it validates the amount
parseNumericEventLooksUpFirst(st, timestamp, type, parts) ==
    IF Len(parts) < 8 THEN Skip(st)
    ELSE LET amountRaw == Number(parts[6])
             s0 == [st EXCEPT !.entities = getEntity(getEntity(@, parts[3]), parts[4])]
         IN IF amountRaw = NaN THEN Skip(s0)
            ELSE StoreNumericEvent(s0, timestamp, type, parts, amountRaw.num)

parseNumericEvent(st, timestamp, type, parts) ==
    IF Len(parts) < 8 THEN Skip(st)
    ELSE LET amountRaw == Number(parts[6]) IN
         IF amountRaw = NaN THEN Skip(st)
         ELSE StoreNumericEvent(st, timestamp, type, parts, amountRaw.num)

parseEffectEvent(st, timestamp, type, parts) ==
    IF Len(parts) < 6 THEN Skip(st)
    ELSE LET sourceName == parts[3]
             targetName == parts[4]
             effectId == Number(parts[6])
             s1 == CountParsed(st, timestamp, type)
             ents == getEntity(getEntity(s1.entities, sourceName), targetName)
             si == IndexOf(ents, sourceName)
             ti == IndexOf(ents, targetName)
             effectEvent == [timestamp |-> timestamp, type |-> type,
                             source |-> sourceName, target |-> targetName,
                             effectName |-> parts[5],
                             effectId |-> IF effectId = NaN THEN StrV(parts[6])
                                          ELSE effectId]
         IN IF type = sBUFF
            THEN LET e1 == [ents EXCEPT ![si].buffsApplied = Append(@, effectEvent)]
                 IN [s1 EXCEPT !.entities =
                        [e1 EXCEPT ![ti].buffsReceived = Append(@, effectEvent)]]
            ELSE LET e1 == [ents EXCEPT ![si].debuffsApplied = Append(@, effectEvent)]
                 IN [s1 EXCEPT !.entities =
                        [e1 EXCEPT ![ti].debuffsReceived = Append(@, effectEvent)]]

\* a variant whose switch has no default branch: a line of an unknown kind is
\* not counted as skipped
ClassifyLineWithoutDefault(st, trimmed) ==
    LET s1 == [st EXCEPT !.globalStats.totalLines = @ + 1]
        parts == MapTrim(Split(trimmed))
    IN IF Len(parts) < 2 THEN Skip(s1)
       ELSE LET ts == Number(parts[1])
                type == parts[2]
            IN IF ts = NaN THEN Skip(s1)
               ELSE IF type \in NumericTypes
                    THEN parseNumericEvent(s1, ts.num, type, parts)
               ELSE IF type \in EffectTypes
                    THEN parseEffectEvent(s1, ts.num, type, parts)
               ELSE s1

\* parseLine from globalStats.totalLines++ on, for a line that is not blank
ClassifyLine(st, trimmed) ==
    LET s1 == [st EXCEPT !.globalStats.totalLines = @ + 1]
        parts == MapTrim(Split(trimmed))
    IN IF Len(parts) < 2 THEN Skip(s1)
       ELSE LET ts == Number(parts[1])
                type == parts[2]
            IN IF ts = NaN THEN Skip(s1)
               ELSE IF type \in NumericTypes
                    THEN parseNumericEvent(s1, ts.num, type, parts)
               ELSE IF type \in EffectTypes
                    THEN parseEffectEvent(s1, ts.num, type, parts)
               ELSE Skip(s1)

\* a variant without the early return for a blank line
parseLineCountsBlank(st, l) == ClassifyLine(st, Trim(l))

parseLine(st, l) ==
    LET trimmed == Trim(l) IN
    IF trimmed = <<>> THEN st ELSE ClassifyLine(st, trimmed)

---------------------------------------------------------------------------
(* Aggregation for the current time frame, and the time filter.            *)

isInCurrentTimeFrame(tf, timestamp) ==
    IF ~tf.enabled THEN TRUE
    ELSE timestamp >= ToNumber(tf.start) /\ timestamp <= ToNumber(tf.end)

\* the sum of e.amount over the events of a list that are in the time frame
RECURSIVE SumInTimeFrame(_, _)
SumInTimeFrame(events, tf) ==
    IF events = <<>> THEN 0
    ELSE SumInTimeFrame(SubSeq(events, 1, Len(events) - 1), tf)
         + (IF isInCurrentTimeFrame(tf, events[Len(events)].timestamp)
            THEN events[Len(events)].amount ELSE 0)

\* one row per entity, in the order of the map
buildAggregatedEntitiesForCurrentTimeFrame(ents, tf) ==
    [i \in 1..Len(ents) |->
        [name |-> ents[i].name,
         damageDone |-> SumInTimeFrame(ents[i].damageEvents, tf),
         healingDone |-> SumInTimeFrame(ents[i].healEvents, tf),
         damageReceived |-> SumInTimeFrame(ents[i].damageTakenEvents, tf)]]

THIRTY_MIN == 30 * 60

\* Math.max
Max(a, b) == IF a >= b THEN a ELSE b

\* the time filter after setupTimeFilterUI()
setupTimeFilterUI(tf, tb) ==
    IF tb.min = Null \/ tb.max = Null THEN tf
    ELSE [enabled |-> FALSE, start |-> tb.min, end |-> tb.max]

\* a variant that does not clamp the start to the earliest timestamp
setInitialTimeFilterUnclamped(tf, tb) ==
    IF tb.min = Null \/ tb.max = Null THEN tf
    ELSE [enabled |-> TRUE, start |-> NumV(tb.max.num - THIRTY_MIN), end |-> tb.max]

\* the time filter after setInitialTimeFilterLast30Minutes()
setInitialTimeFilterLast30Minutes(tf, tb) ==
    IF tb.min = Null \/ tb.max = Null THEN tf
    ELSE LET candidateStart == tb.max.num - THIRTY_MIN
             start == Max(candidateStart, tb.min.num)
         IN [enabled |-> TRUE, start |-> NumV(start), end |-> tb.max]

\* localInputToEpoch: the value of a datetime-local input is a minute of local
\* time, written here as the number of minutes since the epoch, or a text that
\* Date.parse does not read (NaN)
localInputToEpoch(value) ==
    IF value = NaN THEN NaN ELSE NumV(60 * value.num)

\* applyTimeFilterFromInputs() gets past its three early returns
timeInputsPass(tb, startValue, endValue) ==
    LET startEpoch == localInputToEpoch(startValue)
        endEpoch == localInputToEpoch(endValue)
    IN IF startEpoch = NaN \/ endEpoch = NaN THEN FALSE
       ELSE IF \/ startEpoch.num < ToNumber(tb.min)
               \/ startEpoch.num > ToNumber(tb.max)
               \/ endEpoch.num < ToNumber(tb.min)
               \/ endEpoch.num > ToNumber(tb.max)
            THEN FALSE
       ELSE IF startEpoch.num > endEpoch.num THEN FALSE
       ELSE TRUE

\* the time filter after applyTimeFilterFromInputs() with the two input values
applyTimeFilterFromInputs(tf, tb, startValue, endValue) ==
    IF timeInputsPass(tb, startValue, endValue)
    THEN [enabled |-> TRUE, start |-> localInputToEpoch(startValue),
          end |-> localInputToEpoch(endValue)]
    ELSE tf

\* a variant that leaves the filter enabled over the full range
resetTimeFilterStaysEnabled(tb) ==
    [enabled |-> TRUE, start |-> tb.min, end |-> tb.max]

\* the time filter after resetTimeFilterToFullRange()
resetTimeFilterToFullRange(tb) ==
    [enabled |-> FALSE, start |-> tb.min, end |-> tb.max]

---------------------------------------------------------------------------
(* Rendering of the three rankings.  A container holds nothing (innerHTML  *)
(* = ""), the "No data." paragraph, or a table; of a table row the model   *)
(* keeps the rank, the entity name and the amount.                         *)

Blank == [html |-> "blank"]
NoData == [html |-> "nodata"]
Table(rows) == [html |-> "table", rows |-> rows]

BlankTables == [damageDone |-> Blank, healingDone |-> Blank, damageReceived |-> Blank]

\* r put into a list sorted by (a, b) => b[f] - a[f], behind the rows that
\* do not compare after it (Array.prototype.sort is stable)
InsertSorted(sorted, r, valueField) ==
    LET k == Cardinality({i \in 1..Len(sorted) : sorted[i][valueField] >= r[valueField]})
    IN SubSeq(sorted, 1, k) \o <<r>> \o SubSeq(sorted, k + 1, Len(sorted))

\* [...aggregated].sort((a, b) => b[f] - a[f]): the last row is put into the
\* sorted list of the rows before it
RECURSIVE SortDesc(_, _)
SortDesc(rows, valueField) ==
    IF rows = <<>> THEN <<>>
    ELSE CHOOSE result \in
             {InsertSorted(sorted, rows[Len(rows)], valueField) :
                 sorted \in {SortDesc(SubSeq(rows, 1, Len(rows) - 1), valueField)}} :
             TRUE

\* a variant that keeps the rows with a value of 0
RECURSIVE FilterNonNegative(_, _)
FilterNonNegative(rows, valueField) ==
    IF rows = <<>> THEN <<>>
    ELSE (IF Head(rows)[valueField] >= 0 THEN <<Head(rows)>> ELSE <<>>)
         \o FilterNonNegative(Tail(rows), valueField)

\* rows.filter(row => ... v > 0)
RECURSIVE FilterPositive(_, _)
FilterPositive(rows, valueField) ==
    IF rows = <<>> THEN <<>>
    ELSE (IF Head(rows)[valueField] > 0 THEN <<Head(rows)>> ELSE <<>>)
         \o FilterPositive(Tail(rows), valueField)

\* the container after renderEntityTable(containerId, rows, valueField, ...);
\* filteredRows is computed once, as the local constant of the function is
renderEntityTable(rows, valueField) ==
    CHOOSE container \in
        {IF filteredRows = <<>> THEN NoData
         ELSE Table([index \in 1..Len(filteredRows) |->
                       [rank |-> index, name |-> filteredRows[index].name,
                        amount |-> filteredRows[index][valueField]]]) :
            filteredRows \in {FilterPositive(rows, valueField)}} :
        TRUE

\* the three containers after renderTables(); aggregated is computed once,
\* as the local constant of the function is
renderTables(ents, tf) ==
    CHOOSE containers \in
        {[f \in {"damageDone", "healingDone", "damageReceived"} |->
             renderEntityTable(SortDesc(aggregated, f), f)] :
            aggregated \in {buildAggregatedEntitiesForCurrentTimeFrame(ents, tf)}} :
        TRUE

---------------------------------------------------------------------------
(* Aggregates of one entity for the current time frame.  A Map is the      *)
(* sequence of its entries [key, value] in insertion order.                *)

sUnknown == <<"(", "u", "n", "k", "n", "o", "w", "n", ")">>

\* s || "(unknown)": the empty string is falsy
OrUnknown(s) == IF s = <<>> THEN sUnknown ELSE s

\* map.set(key, (map.get(key) || 0) + n): a key the map holds keeps its
\* place, a new key goes last
MapAdd(map, key, n) ==
    IF \E i \in 1..Len(map) : map[i].key = key
    THEN [i \in 1..Len(map) |->
             IF map[i].key = key THEN [key |-> key, value |-> map[i].value + n]
             ELSE map[i]]
    ELSE Append(map, [key |-> key, value |-> n])

\* Array.prototype.slice(0, end): a negative end counts from the end
SliceFromStart(a, end) ==
    LET k == IF end < 0 THEN Max(Len(a) + end, 0)
             ELSE IF end > Len(a) THEN Len(a) ELSE end
    IN SubSeq(a, 1, k)

\* the Map after the loop of buildEntityTopDamageSources over events
RECURSIVE SumBySource(_, _)
SumBySource(events, tf) ==
    IF events = <<>> THEN <<>>
    ELSE LET e == events[Len(events)] IN
         CHOOSE result \in
             {IF isInCurrentTimeFrame(tf, e.timestamp)
              THEN MapAdd(map, OrUnknown(e.source), e.amount)
              ELSE map :
                 map \in {SumBySource(SubSeq(events, 1, Len(events) - 1), tf)}} :
             TRUE

\* buildEntityTopDamageSources(entity, limit): entries [key, value]
buildEntityTopDamageSources(entity, tf, limit) ==
    SliceFromStart(SortDesc(SumBySource(entity.damageTakenEvents, tf), "value"),
                   limit)

\* the default of the parameter limit
DefaultLimit == 10

\* String.prototype.split("::"): the pieces between the separators
RECURSIVE SplitColons(_)
SplitColons(s) ==
    IF \E i \in 1..(Len(s) - 1) : s[i] = ":" /\ s[i + 1] = ":"
    THEN LET i == CHOOSE k \in 1..(Len(s) - 1) :
                      /\ s[k] = ":" /\ s[k + 1] = ":"
                      /\ \A j \in 1..(k - 1) : ~(s[j] = ":" /\ s[j + 1] = ":")
         IN <<SubSeq(s, 1, i - 1)>> \o SplitColons(SubSeq(s, i + 2, Len(s)))
    ELSE <<s>>

\* the Map after one of the two loops of buildEntityAppliedBuffsByEffect,
\* entered with the Map map0: one is counted under prefix + "::" + name
RECURSIVE CountByEffect(_, _, _, _)
CountByEffect(map0, events, prefix, tf) ==
    IF events = <<>> THEN map0
    ELSE LET e == events[Len(events)] IN
         CHOOSE result \in
             {IF isInCurrentTimeFrame(tf, e.timestamp)
              THEN MapAdd(map, prefix \o <<":", ":">> \o OrUnknown(e.effectName), 1)
              ELSE map :
                 map \in {CountByEffect(map0, SubSeq(events, 1, Len(events) - 1),
                                        prefix, tf)}} :
             TRUE

\* buildEntityAppliedBuffsByEffect(entity): rows {type, name, count}, where
\* [type, name] are the first two pieces of key.split("::")
buildEntityAppliedBuffsByEffect(entity, tf) ==
    CHOOSE sorted \in
        {SortDesc([i \in 1..Len(map) |->
                      [type |-> SplitColons(map[i].key)[1],
                       name |-> SplitColons(map[i].key)[2],
                       count |-> map[i].value]], "count") :
            map \in {CountByEffect(CountByEffect(<<>>, entity.buffsApplied, sBUFF, tf),
                                   entity.debuffsApplied, sDEBUFF, tf)}} :
        TRUE

\* appliedEffects.filter(r => r.type === type)
FilterType(rows, type) ==
    LET IsOfType(r) == r.type = type IN SelectSeq(rows, IsOfType)

---------------------------------------------------------------------------
(* Rendering of the details of one entity.  Of the hint the model keeps    *)
(* which of its texts it shows and for which name, of the container        *)
(* whether it is empty or holds the details of an entity, and of the       *)
(* details the name in the header and the rows of the sections "Damage     *)
(* received (by attacker)", "Buffs applied" and "Debuffs applied".         *)

HintPrompt == [kind |-> "prompt"]
HintNotFound(entityName) == [kind |-> "notfound", name |-> entityName]
HintShowing(entityName) == [kind |-> "showing", name |-> entityName]
EntityDetails(entity, tf) ==
    CHOOSE html \in
        {[html |-> "details", name |-> entity.name,
          topDamageSources |-> buildEntityTopDamageSources(entity, tf, DefaultLimit),
          appliedBuffs |-> FilterType(appliedEffects, sBUFF),
          appliedDebuffs |-> FilterType(appliedEffects, sDEBUFF)] :
            appliedEffects \in {buildEntityAppliedBuffsByEffect(entity, tf)}} :
        TRUE

\* the hint and the container before anything is rendered into them
InitDetails == [hint |-> [kind |-> "initial"], container |-> Blank]

\* a variant without the not-found branch: a name that is not registered is
\* shown like an entity without events
renderEntityDetailsOfAnyName(ents, tf, entityName) ==
    IF entityName = <<>> THEN [hint |-> HintPrompt, container |-> Blank]
    ELSE IF ~Has(ents, entityName)
         THEN [hint |-> HintShowing(entityName),
               container |-> EntityDetails(NewEntity(entityName), tf)]
    ELSE [hint |-> HintShowing(entityName),
          container |-> EntityDetails(ents[IndexOf(ents, entityName)], tf)]

\* the hint and the container after renderEntityDetails(entityName);
\* entities.get(entityName) registers nothing
renderEntityDetails(ents, tf, entityName) ==
    IF entityName = <<>> THEN [hint |-> HintPrompt, container |-> Blank]
    ELSE IF ~Has(ents, entityName)
         THEN [hint |-> HintNotFound(entityName), container |-> Blank]
    ELSE [hint |-> HintShowing(entityName),
          container |-> EntityDetails(ents[IndexOf(ents, entityName)], tf)]

---------------------------------------------------------------------------
(* The inputs: log lines as the game writes them, and the values typed     *)
(* into the two datetime inputs.                                           *)

DigitChar(d) ==
    CASE d = 0 -> "0" [] d = 1 -> "1" [] d = 2 -> "2" [] d = 3 -> "3"
      [] d = 4 -> "4" [] d = 5 -> "5" [] d = 6 -> "6" [] d = 7 -> "7"
      [] d = 8 -> "8" [] d = 9 -> "9"

RECURSIVE NaturalText(_)
NaturalText(n) ==
    IF n < 10 THEN <<DigitChar(n)>>
    ELSE NaturalText(n \div 10) \o <<DigitChar(n % 10)>>

\* the decimal numeral of an integer, as a log line carries it
NumeralText(n) == IF n < 0 THEN <<"-">> \o NaturalText(0 - n) ELSE NaturalText(n)

\* a field of a line is a number (written as its numeral) or a text
FieldText(f) == IF "num" \in DOMAIN f THEN NumeralText(f.num) ELSE f.str

RECURSIVE Join(_, _)
Join(fields, sep) ==
    IF fields = <<>> THEN <<>>
    ELSE IF Len(fields) = 1 THEN FieldText(fields[1])
    ELSE FieldText(fields[1]) \o sep \o Join(Tail(fields), sep)

\* the text of a line: its fields joined by commas; a padded line carries
\* white space around every field and a carriage return at its end
Raw(c) ==
    IF c.pad THEN <<" ">> \o Join(c.fields, <<" ", ",", " ">>) \o <<" ", "\r">>
    ELSE Join(c.fields, <<",">>)

nA == StrV(<<"A">>)
nB == StrV(<<"B">>)
tFire == StrV(<<"F">>)
tPool == StrV(<<"M">>)
tHit == StrV(<<"C">>)
tEmpty == StrV(<<>>)
tWord == StrV(<<"a", "b", "c">>)

ParsedCatalogue ==
    { [fields |-> <<NumV(0), StrV(sDMG), nA, nB, tFire, NumV(-50), tPool, tHit>>,
       pad |-> TRUE],
      [fields |-> <<NumV(7200), StrV(sDOT), nB, nB, tFire, NumV(30), tPool, tHit>>,
       pad |-> FALSE],
      [fields |-> <<NumV(1200), StrV(sHEAL), nA, nB, tFire, NumV(-20), tPool, tHit>>,
       pad |-> FALSE],
      [fields |-> <<NumV(1200), StrV(sENERGIZE), nB, nA, tFire, NumV(-5), tPool, tHit>>,
       pad |-> FALSE],
      [fields |-> <<NumV(0), StrV(sBUFF), nA, nB, tFire, NumV(12)>>, pad |-> FALSE],
      [fields |-> <<NumV(7200), StrV(sDEBUFF), nB, nA, tEmpty, tWord>>, pad |-> FALSE] }

\* lines with an empty timestamp, amount or effect id field
EmptyNumberCatalogue ==
    { [fields |-> <<tEmpty, StrV(sDMG), nB, nA, tEmpty, tEmpty, tPool, tHit>>,
       pad |-> FALSE],
      [fields |-> <<NumV(1200), StrV(sBUFF), nB, nA, tFire, tEmpty>>, pad |-> FALSE] }

RejectedCatalogue ==
    { [fields |-> <<tWord, StrV(sDMG), nA, nB, tFire, NumV(10), tPool, tHit>>,
       pad |-> FALSE],
      [fields |-> <<NumV(5), StrV(sHEAL), nA, nB, tFire, NumV(1), tPool>>,
       pad |-> FALSE],
      [fields |-> <<NumV(5), StrV(sDMG), nA, nB, tFire, tWord, tPool, tHit>>,
       pad |-> FALSE],
      [fields |-> <<NumV(5), tWord, nA, nB, tFire, NumV(1), tPool, tHit>>,
       pad |-> FALSE],
      [fields |-> <<tWord>>, pad |-> FALSE],
      [fields |-> <<NumV(5), StrV(sBUFF), nA, nB, tFire>>, pad |-> TRUE] }

BlankCatalogue == { [fields |-> <<>>, pad |-> FALSE], [fields |-> <<>>, pad |-> TRUE] }

Catalogue ==
    ParsedCatalogue \cup EmptyNumberCatalogue \cup RejectedCatalogue \cup BlankCatalogue

\* the lines a text may hold
Lines == {Raw(c) : c \in Catalogue}

nUnknown == StrV(sUnknown)
tFireX == StrV(<<"F", ":", ":", "x">>)

\* lines of a log in which A is hit by B, by a source without a name and by
\* a source whose name is "(unknown)", and applies buffs and debuffs, one
\* without a name and one with "::" in its name; and a line of B alone
DetailCatalogue ==
    { [fields |-> <<NumV(7200), StrV(sDOT), nB, nB, tFire, NumV(30), tPool, tHit>>,
       pad |-> FALSE],
      [fields |-> <<NumV(0), StrV(sDMG), nB, nA, tFire, NumV(-50), tPool, tHit>>,
       pad |-> FALSE],
      [fields |-> <<NumV(7200), StrV(sDMG), tEmpty, nA, tFire, NumV(10), tPool, tHit>>,
       pad |-> FALSE],
      [fields |-> <<NumV(0), StrV(sDMG), nUnknown, nA, tFire, NumV(5), tPool, tHit>>,
       pad |-> FALSE],
      [fields |-> <<NumV(0), StrV(sBUFF), nA, nB, tFire, NumV(12)>>, pad |-> FALSE],
      [fields |-> <<NumV(7200), StrV(sDEBUFF), nA, nB, tFire, NumV(12)>>, pad |-> FALSE],
      [fields |-> <<NumV(7200), StrV(sBUFF), nA, nB, tEmpty, NumV(12)>>, pad |-> FALSE],
      [fields |-> <<NumV(0), StrV(sBUFF), nA, nB, tFireX, NumV(12)>>, pad |-> FALSE] }

\* the lines a text of such a log may hold
DetailLines == {Raw(c) : c \in DetailCatalogue}

\* the catalogue entry a line was written from
Written(l) == CHOOSE c \in Catalogue \cup DetailCatalogue : Raw(c) = l

\* the timestamp the event of a line carries: the number written in field 0
\* (a line with an empty field 0, when it is counted as parsed, is read as 0)
TimestampWritten(l) ==
    LET f == Written(l).fields[1] IN IF "num" \in DOMAIN f THEN f.num ELSE 0

\* what is typed into the entity input: nothing but white space, or a name
\* that some lines carry and others do not
QueryNames == {<<" ">>, <<" ">> \o nA.str}

\* the values of the start and end inputs: a minute, or an unreadable text
InputValues == {NaN, NumV(0), NumV(20), NumV(120), NumV(150)}

---------------------------------------------------------------------------
(* The state machine.  A handler runs to its end before any other starts:  *)
(* while the loop of onload runs (pc = "loop") no other action is enabled. *)

\* the three globals the parsing functions work on
Engine == [entities |-> entities, globalStats |-> globalStats, timeBounds |-> timeBounds]

NoPrior == [tracked |-> FALSE]

\* a line that trim() empties
IsBlank(l) == \A i \in 1..Len(l) : l[i] \in Whitespace

\* a variant of the reset that leaves the per-kind counts alone
resetStateKeepsByType(st) ==
    [EmptyEngine EXCEPT !.globalStats.byType = st.globalStats.byType]

\* the three globals after the "reset state" block of the click handler
resetState(st) == EmptyEngine

Init ==
    /\ entities = <<>>
    /\ globalStats = InitGlobalStats
    /\ timeBounds = InitTimeBounds
    /\ timeFilter = InitTimeFilter
    /\ pending = 0
    /\ pc = "idle"
    /\ remaining = 0
    /\ line = <<>>
    /\ fed = 0
    /\ nonBlank = 0
    /\ parsedTs = {}
    /\ alone = <<>>
    /\ reload = FALSE
    /\ prior = NoPrior
    /\ tables = BlankTables
    /\ details = InitDetails

\* the click handler of parseButton with a file selected: reset state, then
\* reader.readAsText(file)
Click ==
    /\ pc = "idle"
    /\ pending < MaxPending
    /\ entities' = resetState(Engine).entities
    /\ globalStats' = resetState(Engine).globalStats
    /\ timeBounds' = resetState(Engine).timeBounds
    /\ timeFilter' = InitTimeFilter
    /\ pending' = pending + 1
    /\ fed' = 0
    /\ nonBlank' = 0
    /\ parsedTs' = {}
    /\ alone' = <<>>
    /\ reload' = (pending = 0 /\ alone # <<>>)
    /\ prior' = IF pending = 0
                THEN [tracked |-> TRUE,
                      kept |-> (Engine' = Engine /\ timeFilter' = timeFilter)]
                ELSE NoPrior
    /\ tables' = BlankTables
    /\ UNCHANGED <<pc, remaining, line, details>>

\* reader.onload starts: the text of one read arrives and is split into its
\* lines (at least one); the lines are drawn as the loop reaches them
OnLoad ==
    /\ pc = "idle"
    /\ pending > 0
    /\ fed < MaxLines
    /\ \E n \in 1..(MaxLines - fed) : remaining' = n
    /\ pc' = "loop"
    /\ pending' = pending - 1
    /\ alone' = Append(alone, EmptyEngine)
    /\ prior' = NoPrior
    /\ UNCHANGED <<entities, globalStats, timeBounds, timeFilter, line, fed,
                   nonBlank, parsedTs, reload, tables, details>>

\* one iteration of `for (const line of lines) parseLine(line)`, the line
\* being one of lines
ParseLoopOver(lines) ==
    /\ pc = "loop"
    /\ remaining > 0
    /\ \E l \in lines :
          LET st == parseLine(Engine, l) IN
          /\ line' = l
          /\ entities' = st.entities
          /\ globalStats' = st.globalStats
          /\ timeBounds' = st.timeBounds
          /\ alone' = [alone EXCEPT ![Len(alone)] = parseLine(@, l)]
          /\ nonBlank' = IF IsBlank(l) THEN nonBlank ELSE nonBlank + 1
          /\ parsedTs' = IF st.globalStats.parsedLines > globalStats.parsedLines
                         THEN parsedTs \cup {TimestampWritten(l)}
                         ELSE parsedTs
    /\ remaining' = remaining - 1
    /\ fed' = fed + 1
    /\ UNCHANGED <<timeFilter, pending, pc, reload, prior, tables, details>>

ParseLoop == ParseLoopOver(Lines)

\* the same iteration with a log of the detail catalogue
ParseLoopDetails == ParseLoopOver(DetailLines)

\* the rest of reader.onload after the loop: setupTimeFilterUI(), then
\* setInitialTimeFilterLast30Minutes(), which ends with renderTables() unless
\* it returns early, then renderEntityDetails("")
OnLoadEnd ==
    /\ pc = "loop"
    /\ remaining = 0
    /\ timeFilter' = setInitialTimeFilterLast30Minutes(
                         setupTimeFilterUI(timeFilter, timeBounds), timeBounds)
    /\ tables' = IF timeBounds.min = Null \/ timeBounds.max = Null THEN tables
                 ELSE renderTables(entities, timeFilter')
    /\ details' = renderEntityDetails(entities, timeFilter', <<>>)
    /\ pc' = "idle"
    /\ line' = <<>>
    /\ UNCHANGED <<entities, globalStats, timeBounds, pending, remaining, fed,
                   nonBlank, parsedTs, alone, reload, prior>>

\* a read fails: the reader has no onerror handler, so nothing runs
ReadError ==
    /\ pc = "idle"
    /\ pending > 0
    /\ pending' = pending - 1
    /\ prior' = NoPrior
    /\ UNCHANGED <<entities, globalStats, timeBounds, timeFilter, pc, remaining,
                   line, fed, nonBlank, parsedTs, alone, reload, tables, details>>

\* the click handler of applyTimeFilter
ApplyTimeFilter ==
    /\ pc = "idle"
    /\ \E startValue \in InputValues, endValue \in InputValues :
          /\ timeFilter' = applyTimeFilterFromInputs(timeFilter, timeBounds,
                                                     startValue, endValue)
          /\ tables' = IF timeInputsPass(timeBounds, startValue, endValue)
                       THEN renderTables(entities, timeFilter')
                       ELSE tables
    /\ UNCHANGED <<entities, globalStats, timeBounds, pending, pc, remaining,
                   line, fed, nonBlank, parsedTs, alone, reload, prior, details>>

\* the click handler of resetTimeFilter
ResetTimeFilter ==
    /\ pc = "idle"
    /\ timeFilter' = resetTimeFilterToFullRange(timeBounds)
    /\ tables' = renderTables(entities, timeFilter')
    /\ UNCHANGED <<entities, globalStats, timeBounds, pending, pc, remaining,
                   line, fed, nonBlank, parsedTs, alone, reload, prior, details>>

\* a variant that looks the name up with getEntity, which registers it
ShowEntityDetailsRegistering ==
    /\ pc = "idle"
    /\ \E name \in QueryNames :
          /\ entities' = IF Trim(name) = <<>> THEN entities
                         ELSE getEntity(entities, Trim(name))
          /\ details' = renderEntityDetails(entities', timeFilter, Trim(name))
    /\ UNCHANGED <<globalStats, timeBounds, timeFilter, pending, pc,
                   remaining, line, fed, nonBlank, parsedTs, alone, reload, prior,
                   tables>>

\* the handlers that show the details of an entity (the show button, Enter
\* in the entity input, a click on a name in a ranking): renderEntityDetails(name)
ShowEntityDetails ==
    /\ pc = "idle"
    /\ \E name \in QueryNames :
          details' = renderEntityDetails(entities, timeFilter, Trim(name))
    /\ UNCHANGED <<entities, globalStats, timeBounds, timeFilter, pending, pc,
                   remaining, line, fed, nonBlank, parsedTs, alone, reload, prior,
                   tables>>

Next ==
    \/ Click
    \/ OnLoad
    \/ ParseLoop
    \/ OnLoadEnd
    \/ ReadError
    \/ ApplyTimeFilter
    \/ ResetTimeFilter

\* the loads and the time filter
Spec == Init /\ [][Next]_vars

\* the page after the first click on parseButton: the state is reset and one
\* read is in flight
QueryInit ==
    /\ entities = <<>>
    /\ globalStats = InitGlobalStats
    /\ timeBounds = InitTimeBounds
    /\ timeFilter = InitTimeFilter
    /\ pending = 1
    /\ pc = "idle"
    /\ remaining = 0
    /\ line = <<>>
    /\ fed = 0
    /\ nonBlank = 0
    /\ parsedTs = {}
    /\ alone = <<>>
    /\ reload = FALSE
    /\ prior = [tracked |-> TRUE, kept |-> TRUE]
    /\ tables = BlankTables
    /\ details = InitDetails

\* the load of one log of the detail catalogue, and on the loaded log the
\* time filter and the handlers of the entity details
QueryNext ==
    \/ OnLoad
    \/ ParseLoopDetails
    \/ OnLoadEnd
    \/ ApplyTimeFilter
    \/ ResetTimeFilter
    \/ ShowEntityDetails

QuerySpec == QueryInit /\ [][QueryNext]_vars

---------------------------------------------------------------------------
(* Properties.                                                             *)

\* the entries of the map, as a set of positions
Registered == 1..Len(entities)

\* the sum of e.amount over a list of events, whatever the time filter
RECURSIVE SumAmounts(_)
SumAmounts(events) ==
    IF events = <<>> THEN 0 ELSE Head(events).amount + SumAmounts(Tail(events))

\* the last element of a non-empty list
Last(events) == events[Len(events)]

\* the entity registered under a name, in the next state
EntityNext(name) == entities'[CHOOSE i \in 1..Len(entities') : entities'[i].name = name]

\* C1: a load started after the previous load has completed (no read in
\* flight at the click, and no other click before its read completes) leaves
\* exactly the registry, counters and time bounds that its own lines give from
\* the empty initial state; nothing of the previous log remains.
C1_ReloadReplaces ==
    (reload /\ Len(alone) = 1) => Engine = alone[1]

\* C1 witness: a reload has completed and has parsed lines of its own.
C1_Witness ==
    /\ reload /\ Len(alone) = 1 /\ pc = "idle" /\ pending = 0
    /\ globalStats.parsedLines = 2
    /\ Len(entities) = 2

\* C2 (as claimed): once the callbacks of two overlapping loads have both
\* run, the registry, counters and time bounds are those of one of the two
\* logs ingested alone.
C2_OverlapReplaces ==
    (pc = "idle" /\ pending = 0 /\ Len(alone) = 2) => Engine \in {alone[1], alone[2]}

\* C3 (as claimed): when the read of a requested load fails, the registry,
\* counters, time bounds and time filter are what they were before the load
\* was requested.
C3_FailedReadKeepsState ==
    [][(ReadError /\ prior.tracked)
          => (prior.kept /\ Engine' = Engine /\ timeFilter' = timeFilter)]_vars

\* C4: for every entity each running total is the sum of the amounts of its
\* list (damageDone/damageEvents, healingDone/healEvents,
\* damageReceived/damageTakenEvents), in every state, and no time-filter
\* operation (initial window, explicit set, reset) changes a running total.
C4_TotalsAreSums ==
    /\ [](\A i \in Registered :
             /\ entities[i].damageDone = SumAmounts(entities[i].damageEvents)
             /\ entities[i].healingDone = SumAmounts(entities[i].healEvents)
             /\ entities[i].damageReceived = SumAmounts(entities[i].damageTakenEvents))
    /\ [][(OnLoadEnd \/ ApplyTimeFilter \/ ResetTimeFilter)
             => /\ Len(entities') = Len(entities)
                /\ \A i \in Registered :
                      /\ entities'[i].damageDone = entities[i].damageDone
                      /\ entities'[i].healingDone = entities[i].healingDone
                      /\ entities'[i].damageReceived = entities[i].damageReceived]_vars

\* C4 witness: an entity with two damage-taken events and their sum as its
\* total, while an explicit window that differs from the initial one is set.
C4_Witness ==
    /\ pc = "idle"
    /\ timeFilter = [enabled |-> TRUE, start |-> NumV(0), end |-> NumV(0)]
    /\ \E i \in Registered :
          /\ Len(entities[i].damageTakenEvents) = 2
          /\ entities[i].damageReceived = 80

\* the absolute value, as the claim states it
Magnitude(n) == IF n >= 0 THEN n ELSE 0 - n

\* the events of all three numeric lists of all entities
NumericEventsOf(e) ==
    {e.damageEvents[k] : k \in 1..Len(e.damageEvents)}
    \cup {e.healEvents[k] : k \in 1..Len(e.healEvents)}
    \cup {e.damageTakenEvents[k] : k \in 1..Len(e.damageTakenEvents)}

\* the step of the loop that has just parsed a line written from c
Parsed(c) == pc = "loop" /\ remaining' = remaining - 1 /\ line' = Raw(c)

\* C5: every stored damage or heal event has amount >= 0, every running
\* total and every windowed total is >= 0, and the event stored for a line
\* carries the absolute value of the amount written in the line.
C5_AmountsAreMagnitudes ==
    /\ [](\A i \in Registered :
             /\ \A ev \in NumericEventsOf(entities[i]) : ev.amount >= 0
             /\ entities[i].damageDone >= 0
             /\ entities[i].healingDone >= 0
             /\ entities[i].damageReceived >= 0)
    /\ [](LET rows == buildAggregatedEntitiesForCurrentTimeFrame(entities, timeFilter)
          IN \A i \in 1..Len(rows) :
                rows[i].damageDone >= 0 /\ rows[i].healingDone >= 0
                /\ rows[i].damageReceived >= 0)
    /\ [][\A c \in ParsedCatalogue :
             Parsed(c) =>
                LET type == c.fields[2].str
                    source == EntityNext(c.fields[3].str)
                    target == EntityNext(c.fields[4].str)
                    amount == Magnitude(c.fields[6].num)
                IN /\ type \in {sDMG, sDOT} =>
                        /\ Last(source.damageEvents).amount = amount
                        /\ Last(target.damageTakenEvents).amount = amount
                   /\ type = sHEAL => Last(source.healEvents).amount = amount]_vars

\* C5 witness: the line written with amount -50 has been parsed and the
\* event stored for it carries 50.
C5_Witness ==
    /\ Written(line).fields = <<NumV(0), StrV(sDMG), nA, nB, tFire, NumV(-50), tPool, tHit>>
    /\ \E i \in Registered :
          /\ entities[i].damageEvents # <<>>
          /\ Last(entities[i].damageEvents).amount = 50
          /\ entities[i].damageDone = 50

\* a field of a written line that is a number
IsNumberField(c, k) == "num" \in DOMAIN c.fields[k]

\* the lines the claim counts as parsed: a numeric timestamp in field 0 and
\* either a numeric kind with at least 8 fields and a numeric amount in field
\* 5, or an effect kind with at least 6 fields
WellFormed(c) ==
    /\ Len(c.fields) >= 2
    /\ IsNumberField(c, 1)
    /\ ~IsNumberField(c, 2)
    /\ \/ c.fields[2].str \in NumericTypes /\ Len(c.fields) >= 8 /\ IsNumberField(c, 6)
       \/ c.fields[2].str \in EffectTypes /\ Len(c.fields) >= 6

\* the counters after a line counted as parsed, and after a line counted as skipped
CountedParsed ==
    /\ globalStats'.totalLines = globalStats.totalLines + 1
    /\ globalStats'.parsedLines = globalStats.parsedLines + 1
    /\ globalStats'.skippedLines = globalStats.skippedLines

CountedSkipped ==
    /\ globalStats'.totalLines = globalStats.totalLines + 1
    /\ globalStats'.skippedLines = globalStats.skippedLines + 1
    /\ globalStats'.parsedLines = globalStats.parsedLines

\* C6 (as claimed): a non-blank line is counted as parsed if and only if it
\* has a numeric timestamp, and a numeric kind with >= 8 fields and a numeric
\* amount or an effect kind with >= 6 fields; every other non-blank line is
\* counted as skipped (totalLines +1, skippedLines +1, parsedLines unchanged).
C6_ParsedIffWellFormed ==
    [][\A c \in Catalogue \ BlankCatalogue :
          Parsed(c) => IF WellFormed(c) THEN CountedParsed ELSE CountedSkipped]_vars

\* C7: a rejected line changes nothing but the line counters: parsedLines,
\* the per-kind counts, the time bounds, the registered entities and all their
\* totals and lists stay as they were, on every rejection path.
C7_RejectedLineFrame ==
    /\ [][\A c \in RejectedCatalogue :
             Parsed(c) => /\ CountedSkipped
                          /\ globalStats'.byType = globalStats.byType
                          /\ timeBounds' = timeBounds
                          /\ entities' = entities]_vars
    /\ [][(globalStats'.skippedLines # globalStats.skippedLines /\ ~Click)
             => /\ CountedSkipped
                /\ globalStats'.byType = globalStats.byType
                /\ timeBounds' = timeBounds
                /\ entities' = entities]_vars

\* C7 witness: a line with a non-numeric amount and the names A and B has been
\* rejected, and no entity is registered.
C7_Witness ==
    /\ pc = "loop"
    /\ Written(line).fields = <<NumV(5), StrV(sDMG), nA, nB, tFire, tWord, tPool, tHit>>
    /\ globalStats.skippedLines = 1
    /\ globalStats.totalLines = 1
    /\ entities = <<>>
    /\ timeBounds = InitTimeBounds

\* C8: the loop of an ingestion visits one line per step and ends: a step,
\* whether the line is parsed, skipped or blank, leaves the loop running with
\* one line less (so a skipped line never stops it), and a running loop
\* always reaches its end; a blank line changes no counter; totalLines is the
\* number of non-blank lines visited.
C8_IngestionTerminates ==
    /\ [](globalStats.totalLines = nonBlank)
    /\ [](pc = "loop" => remaining >= 0 /\ (remaining > 0 => ENABLED ParseLoop))
    /\ [][(pc = "loop" /\ remaining > 0)
             => (pc' = "loop" /\ remaining' = remaining - 1 /\ fed' = fed + 1)]_vars
    /\ [][\A c \in BlankCatalogue : Parsed(c) => globalStats' = globalStats]_vars
    /\ ((pc = "loop") ~> (pc = "idle"))

\* C8 witness: a text of a skipped line followed by a parsed line has been
\* ingested to its end; both lines are counted.
C8_Witness ==
    /\ pc = "idle" /\ fed = 2 /\ Len(alone) = 1
    /\ globalStats.skippedLines = 1
    /\ globalStats.parsedLines = 1
    /\ globalStats.totalLines = 2

\* the minimum and the maximum of a non-empty set of integers
MinOf(S) == CHOOSE x \in S : \A y \in S : x <= y
MaxOf(S) == CHOOSE x \in S : \A y \in S : x >= y

\* C9: the time bounds are both null exactly when no line has been parsed
\* since the last reset; otherwise min and max are the least and the greatest
\* timestamp of the parsed lines of all six kinds, so min <= max; within a
\* pass min never increases and max never decreases.
C9_TimeBounds ==
    /\ [](IF globalStats.parsedLines = 0
          THEN timeBounds.min = Null /\ timeBounds.max = Null /\ parsedTs = {}
          ELSE /\ parsedTs # {}
               /\ timeBounds.min = NumV(MinOf(parsedTs))
               /\ timeBounds.max = NumV(MaxOf(parsedTs))
               /\ timeBounds.min.num <= timeBounds.max.num)
    /\ [][(pc = "loop" /\ timeBounds.min # Null)
             => /\ timeBounds'.min # Null /\ timeBounds'.max # Null
                /\ timeBounds'.min.num <= timeBounds.min.num
                /\ timeBounds'.max.num >= timeBounds.max.num]_vars

\* C9 witness: the minimum comes from an ENERGIZE line, which is stored in no
\* list, and the maximum from a later line.
C9_Witness ==
    /\ timeBounds = [min |-> NumV(1200), max |-> NumV(7200)]
    /\ globalStats.byType[sENERGIZE] = 1
    /\ globalStats.parsedLines = 2

\* C10: when an ingestion that has parsed lines completes, the time filter is
\* enabled with end = max and start = max - 1800, or min when that is later:
\* [min, max] when the log spans less than 1800 seconds, [5400, 7200] for the
\* bounds 0..7200.
C10_InitialWindow ==
    [][(pc = "loop" /\ pc' = "idle" /\ globalStats.parsedLines >= 1)
          => /\ timeFilter'.enabled
             /\ timeFilter'.end = timeBounds.max
             /\ timeFilter'.start =
                   (IF timeBounds.max.num - 1800 >= timeBounds.min.num
                    THEN NumV(timeBounds.max.num - 1800) ELSE timeBounds.min)
             /\ (timeBounds.max.num - timeBounds.min.num < 1800
                    => timeFilter'.start = timeBounds.min)
             /\ (timeBounds = [min |-> NumV(0), max |-> NumV(7200)]
                    => timeFilter'.start = NumV(5400) /\ timeFilter'.end = NumV(7200))]_vars

\* C10 witness: a log with the bounds 0..7200 has been ingested and the
\* window is its last 1800 seconds.
C10_Witness ==
    /\ pc = "idle"
    /\ timeBounds = [min |-> NumV(0), max |-> NumV(7200)]
    /\ timeFilter = [enabled |-> TRUE, start |-> NumV(5400), end |-> NumV(7200)]

\* the step of the applyTimeFilter handler for the input values startValue
\* and endValue
Requests(startValue, endValue) ==
    /\ ApplyTimeFilter
    /\ timeFilter' = applyTimeFilterFromInputs(timeFilter, timeBounds,
                                               startValue, endValue)

\* the second an input value stands for
Epoch(value) == 60 * value.num

\* x lies within [timeBounds.min, timeBounds.max]
WithinBounds(x) ==
    /\ timeBounds.min # Null /\ timeBounds.max # Null
    /\ timeBounds.min.num <= x /\ x <= timeBounds.max.num

\* a request the claim accepts: both values readable, within the bounds, in order
ValidRequest(startValue, endValue) ==
    /\ startValue # NaN /\ endValue # NaN
    /\ WithinBounds(Epoch(startValue)) /\ WithinBounds(Epoch(endValue))
    /\ Epoch(startValue) <= Epoch(endValue)

\* C11 (as claimed): an explicit window request with start or end outside
\* [timeBounds.min, timeBounds.max], or with start > end, leaves enabled,
\* start and end exactly as they were; the filter becomes the requested
\* window (enabled, start, end as requested) only for a request with both
\* values within [min, max] and start <= end.
C11_WindowValidation ==
    [][\A startValue \in InputValues, endValue \in InputValues :
          Requests(startValue, endValue) =>
             IF ValidRequest(startValue, endValue)
             THEN timeFilter' \in
                     {timeFilter,
                      [enabled |-> TRUE, start |-> NumV(Epoch(startValue)),
                       end |-> NumV(Epoch(endValue))]}
             ELSE timeFilter' = timeFilter]_vars

\* timestamps below, at, between and above the timestamps of the lines
SampleTimestamps == {-1, 0, 1, 1199, 1200, 1201, 5399, 5400, 7199, 7200, 7201, 9000}

\* the windowed totals of every entity are its running totals
WindowedAreRunning(ents, tf) ==
    LET rows == buildAggregatedEntitiesForCurrentTimeFrame(ents, tf)
    IN /\ Len(rows) = Len(ents)
       /\ \A i \in 1..Len(ents) :
             /\ rows[i].name = ents[i].name
             /\ rows[i].damageDone = ents[i].damageDone
             /\ rows[i].healingDone = ents[i].healingDone
             /\ rows[i].damageReceived = ents[i].damageReceived

\* C12: from any filter state the reset sets enabled = false, start =
\* timeBounds.min and end = timeBounds.max; while the filter is disabled every
\* timestamp passes the window predicate whatever start and end are, so that
\* every entity's windowed totals are its running totals, in particular after
\* a reset; while it is enabled a timestamp passes exactly when
\* start <= timestamp <= end.
C12_ResetAndWindowPredicate ==
    /\ [][ResetTimeFilter =>
             /\ timeFilter' = [enabled |-> FALSE, start |-> timeBounds.min,
                               end |-> timeBounds.max]
             /\ WindowedAreRunning(entities', timeFilter')]_vars
    /\ [](~timeFilter.enabled =>
             /\ \A t \in SampleTimestamps : isInCurrentTimeFrame(timeFilter, t)
             /\ WindowedAreRunning(entities, timeFilter))
    /\ [](timeFilter.enabled =>
             /\ timeFilter.start # Null /\ timeFilter.end # Null
             /\ \A t \in SampleTimestamps :
                   isInCurrentTimeFrame(timeFilter, t)
                      <=> (timeFilter.start.num <= t /\ t <= timeFilter.end.num))

\* C12 witness: after a reset the filter is disabled over the full range
\* 0..7200 and an entity hit at 0 and at 7200 has its running total 80 as its
\* windowed total.
C12_Witness ==
    /\ pc = "idle"
    /\ timeFilter = [enabled |-> FALSE, start |-> NumV(0), end |-> NumV(7200)]
    /\ \E i \in Registered :
          /\ {entities[i].damageTakenEvents[k].timestamp :
                 k \in 1..Len(entities[i].damageTakenEvents)} = {0, 7200}
          /\ entities[i].damageReceived = 80
          /\ buildAggregatedEntitiesForCurrentTimeFrame(entities, timeFilter)[i]
                .damageReceived = 80

\* the ends of the windows compared: the timestamps of the lines
WindowEnds == {0, 1200, 7200}

\* the enabled window [s, e]
Window(s, e) == [enabled |-> TRUE, start |-> NumV(s), end |-> NumV(e)]

\* C13: for the entities of any state, and any two enabled windows with
\* [s1, e1] contained in [s2, e2], each windowed total (damageDone,
\* healingDone, damageReceived) of each entity under [s2, e2] is at least the
\* same total under [s1, e1].
C13_WindowMonotonic ==
    \A s2 \in WindowEnds, e1 \in WindowEnds :
       \A s1 \in {x \in WindowEnds : s2 <= x}, e2 \in {x \in WindowEnds : e1 <= x} :
          \A i \in Registered :
             /\ SumInTimeFrame(entities[i].damageEvents, Window(s2, e2))
                   >= SumInTimeFrame(entities[i].damageEvents, Window(s1, e1))
             /\ SumInTimeFrame(entities[i].healEvents, Window(s2, e2))
                   >= SumInTimeFrame(entities[i].healEvents, Window(s1, e1))
             /\ SumInTimeFrame(entities[i].damageTakenEvents, Window(s2, e2))
                   >= SumInTimeFrame(entities[i].damageTakenEvents, Window(s1, e1))

\* C13 witness: an ingested log whose entity, hit for 50 at 0 and for 30 at
\* 7200, has a strictly greater damageReceived under [0, 7200] than under
\* [0, 1200], and none under [1200, 1200].
C13_Witness ==
    /\ pc = "idle"
    /\ \E i \in Registered :
          LET at(s, e) == buildAggregatedEntitiesForCurrentTimeFrame(
                              entities, Window(s, e))[i]
          IN /\ at(1200, 1200).damageReceived = 0
             /\ at(0, 1200).damageReceived = 50
             /\ at(0, 7200).damageReceived = 80

\* the three ranked metrics, and the list each is summed from
Metrics == {"damageDone", "healingDone", "damageReceived"}

ListOf(metric) ==
    CASE metric = "damageDone" -> "damageEvents"
      [] metric = "healingDone" -> "healEvents"
      [] metric = "damageReceived" -> "damageTakenEvents"

\* the rows a container shows
RankedRows(container) == IF container.html = "table" THEN container.rows ELSE <<>>

\* the sum of the values of a sequence of numbers
RECURSIVE SumSeq(_)
SumSeq(q) == IF q = <<>> THEN 0 ELSE Head(q) + SumSeq(Tail(q))

\* the value of an entity for a metric in the window of the filter
WindowedValue(e, metric) == SumInTimeFrame(e[ListOf(metric)], timeFilter)

\* C14: each ranking shows no row with a value <= 0 and is in non-increasing
\* order of its value; once rendered for the state at hand (no handler
\* running), it ranks exactly the entities whose windowed value is > 0, each
\* with that value, and when the filter is disabled the ranked values sum to
\* the sum of the running totals of all registered entities.
C14_Rankings ==
    \A metric \in Metrics :
       LET rows == RankedRows(tables[metric]) IN
       /\ \A k \in 1..Len(rows) : rows[k].amount > 0 /\ rows[k].rank = k
       /\ \A k \in 1..(Len(rows) - 1) : rows[k].amount >= rows[k + 1].amount
       /\ (pc = "idle" /\ tables[metric] # Blank) =>
             /\ {[name |-> rows[k].name, amount |-> rows[k].amount] : k \in 1..Len(rows)}
                   = {[name |-> entities[i].name,
                       amount |-> WindowedValue(entities[i], metric)] :
                         i \in {j \in Registered :
                                   WindowedValue(entities[j], metric) > 0}}
             /\ Len(rows) = Cardinality({j \in Registered :
                                            WindowedValue(entities[j], metric) > 0})
             /\ ~timeFilter.enabled =>
                   SumSeq([k \in 1..Len(rows) |-> rows[k].amount])
                      = SumSeq([i \in 1..Len(entities) |-> entities[i][metric]])

\* C14 witness: with the filter disabled, B (registered first, damage done 30)
\* is ranked behind A (damage done 50), the damage-received ranking holds B
\* alone with 80 and leaves A out, and the healing ranking holds no row.
C14_Witness ==
    /\ pc = "idle"
    /\ ~timeFilter.enabled
    /\ Len(entities) = 2
    /\ entities[1].name = nB.str
    /\ tables["damageDone"] =
          Table(<<[rank |-> 1, name |-> nA.str, amount |-> 50],
                  [rank |-> 2, name |-> nB.str, amount |-> 30]>>)
    /\ tables["damageReceived"] = Table(<<[rank |-> 1, name |-> nB.str, amount |-> 80]>>)
    /\ tables["healingDone"] = NoData

\* the step that asks for the details with the text typed in the entity input
Asks(typed) ==
    /\ ShowEntityDetails
    /\ details' = renderEntityDetails(entities, timeFilter, Trim(typed))

\* the name a typed text stands for
NameTyped(typed) == CHOOSE c \in {<<>>, nA.str} : <<" ">> \o c = typed

\* C15: asking for the details of a name that is not registered shows the
\* not-found hint for that name and an empty container, which is not what is
\* shown for a registered entity, with or without events in the window (the
\* hint of the entity and its details), and registers nothing: the registry,
\* the counters, the bounds and the filter stay as they were.  (With no name
\* typed the prompt is shown.)
C15_NotFound ==
    /\ [][\A typed \in QueryNames :
             Asks(typed) =>
                LET name == NameTyped(typed) IN
                /\ Engine' = Engine /\ timeFilter' = timeFilter /\ tables' = tables
                /\ IF name = <<>>
                   THEN details'.hint = [kind |-> "prompt"]
                   ELSE IF \E i \in Registered : entities[i].name = name
                   THEN /\ details'.hint = [kind |-> "showing", name |-> name]
                        /\ details'.container.html = "details"
                        /\ details'.container.name = name
                   ELSE /\ details'.hint = [kind |-> "notfound", name |-> name]
                        /\ details'.container = [html |-> "blank"]]_vars
    /\ [](details.hint.kind = "notfound" => details.container.html = "blank")
    /\ [](details.hint.kind = "showing" => details.container.html = "details")

\* C15 witness: A is asked for and not found in a log that registers B only.
C15_Witness ==
    /\ pc = "idle"
    /\ Len(entities) = 1 /\ entities[1].name = nB.str
    /\ details = [hint |-> [kind |-> "notfound", name |-> nA.str],
                  container |-> [html |-> "blank"]]

\* the entity registered under a name, or what getEntity would register for it
EntityNow(name) ==
    IF \E i \in Registered : entities[i].name = name
    THEN entities[CHOOSE i \in Registered : entities[i].name = name]
    ELSE NewEntity(name)

\* list `after` is list `before` with one event of the given timestamp and
\* amount put at its end
OneAppended(before, after, timestamp, amount) ==
    /\ Len(after) = Len(before) + 1
    /\ SubSeq(after, 1, Len(before)) = before
    /\ Last(after).timestamp = timestamp
    /\ Last(after).amount = amount

\* the characters of `100,DMG,Alice,Bob,Fireball,-50,Magic,Crit`
ScenarioALine ==
    <<"1", "0", "0", ",", "D", "M", "G", ",", "A", "l", "i", "c", "e", ",",
      "B", "o", "b", ",", "F", "i", "r", "e", "b", "a", "l", "l", ",",
      "-", "5", "0", ",", "M", "a", "g", "i", "c", ",", "C", "r", "i", "t">>

\* that line ingested alone gives Alice damage done 50 and Bob damage
\* received 50 over the full range
ScenarioA ==
    LET st == parseLine(EmptyEngine, ScenarioALine)
        rows == buildAggregatedEntitiesForCurrentTimeFrame(
                    st.entities, resetTimeFilterToFullRange(st.timeBounds))
    IN /\ st.globalStats.parsedLines = 1
       /\ st.globalStats.byType[sDMG] = 1
       /\ Len(rows) = 2
       /\ rows[1] = [name |-> <<"A", "l", "i", "c", "e">>, damageDone |-> 50,
                     healingDone |-> 0, damageReceived |-> 0]
       /\ rows[2] = [name |-> <<"B", "o", "b">>, damageDone |-> 0,
                     healingDone |-> 0, damageReceived |-> 50]
       /\ Len(st.entities[1].damageEvents) = 1
       /\ Len(st.entities[2].damageTakenEvents) = 1

\* C16: an accepted DMG or DOT line with source S, target T and amount a
\* appends exactly one event with the timestamp of the line and the amount
\* |a| at the end of the damage-done list of S and exactly one at the end of
\* the damage-taken list of T, and adds |a| to S.damageDone and to
\* T.damageReceived (both on the one entity when S = T); S's damage-taken
\* list and T's damage-done list grow only when S = T.  The line
\* `100,DMG,Alice,Bob,Fireball,-50,Magic,Crit` gives Alice damage done 50 and
\* Bob damage received 50 over the full range.
C16_DamageDualWrite ==
    /\ [][\A c \in {x \in ParsedCatalogue : x.fields[2].str \in {sDMG, sDOT}} :
             Parsed(c) =>
                LET S == c.fields[3].str
                    T == c.fields[4].str
                    timestamp == c.fields[1].num
                    amount == Magnitude(c.fields[6].num)
                IN /\ OneAppended(EntityNow(S).damageEvents, EntityNext(S).damageEvents,
                                  timestamp, amount)
                   /\ OneAppended(EntityNow(T).damageTakenEvents,
                                  EntityNext(T).damageTakenEvents, timestamp, amount)
                   /\ Last(EntityNext(S).damageEvents).target = T
                   /\ Last(EntityNext(T).damageTakenEvents).source = S
                   /\ EntityNext(S).damageDone = EntityNow(S).damageDone + amount
                   /\ EntityNext(T).damageReceived = EntityNow(T).damageReceived + amount
                   /\ S # T =>
                         /\ EntityNext(S).damageTakenEvents = EntityNow(S).damageTakenEvents
                         /\ EntityNext(S).damageReceived = EntityNow(S).damageReceived
                         /\ EntityNext(T).damageEvents = EntityNow(T).damageEvents
                         /\ EntityNext(T).damageDone = EntityNow(T).damageDone
                   /\ EntityNext(S).healEvents = EntityNow(S).healEvents
                   /\ EntityNext(T).healEvents = EntityNow(T).healEvents]_vars
    /\ []ScenarioA

\* C16 witness: after a DMG line from A to B (amount -50), a DOT line from B
\* to B (amount 30) has been parsed: B has one damage-done event and two
\* damage-taken events, damage done 30 and damage received 80.
C16_Witness ==
    /\ pc = "loop"
    /\ Written(line).fields = <<NumV(7200), StrV(sDOT), nB, nB, tFire, NumV(30), tPool, tHit>>
    /\ Len(EntityNow(nB.str).damageEvents) = 1
    /\ Len(EntityNow(nB.str).damageTakenEvents) = 2
    /\ Last(EntityNow(nB.str).damageTakenEvents).amount = 30
    /\ EntityNow(nB.str).damageDone = 30
    /\ EntityNow(nB.str).damageReceived = 80
    /\ EntityNow(nA.str).damageDone = 50

\* the names registered in the next state
NamesNext == {entities'[i].name : i \in 1..Len(entities')}

\* the characters of `10,HEAL,Carol,Carol,Regen,30,Health,Normal` and of
\* `20,HEAL,Carol,Dave,Regen,20,Health,Normal`
ScenarioBLine1 ==
    <<"1", "0", ",", "H", "E", "A", "L", ",", "C", "a", "r", "o", "l", ",",
      "C", "a", "r", "o", "l", ",", "R", "e", "g", "e", "n", ",", "3", "0",
      ",", "H", "e", "a", "l", "t", "h", ",", "N", "o", "r", "m", "a", "l">>

ScenarioBLine2 ==
    <<"2", "0", ",", "H", "E", "A", "L", ",", "C", "a", "r", "o", "l", ",",
      "D", "a", "v", "e", ",", "R", "e", "g", "e", "n", ",", "2", "0", ",",
      "H", "e", "a", "l", "t", "h", ",", "N", "o", "r", "m", "a", "l">>

\* the two lines ingested in this order give Carol healing done 50 over the
\* full range, and Dave no heal
ScenarioB ==
    LET st == parseLine(parseLine(EmptyEngine, ScenarioBLine1), ScenarioBLine2)
        rows == buildAggregatedEntitiesForCurrentTimeFrame(
                    st.entities, resetTimeFilterToFullRange(st.timeBounds))
    IN /\ st.globalStats.parsedLines = 2
       /\ Len(rows) = 2
       /\ rows[1] = [name |-> <<"C", "a", "r", "o", "l">>, damageDone |-> 0,
                     healingDone |-> 50, damageReceived |-> 0]
       /\ rows[2] = [name |-> <<"D", "a", "v", "e">>, damageDone |-> 0,
                     healingDone |-> 0, damageReceived |-> 0]
       /\ st.entities[1].healingDone = 50
       /\ Len(st.entities[1].healEvents) = 2
       /\ st.entities[2] = NewEntity(<<"D", "a", "v", "e">>)

\* C17: an accepted HEAL line with source S, target T and amount a appends
\* one event with amount |a| to the heal-done list of S and adds |a| to
\* S.healingDone; no other list or total of S and no list or total of any
\* other entity changes, so a target other than S gets no heal event and
\* keeps its healingDone.  Two heals of 30 and 20 by Carol, one of them on
\* Dave, give Carol 50 and Dave none.
C17_HealSourceOnly ==
    /\ [][\A c \in {x \in ParsedCatalogue : x.fields[2].str = sHEAL} :
             Parsed(c) =>
                LET S == c.fields[3].str
                    T == c.fields[4].str
                    amount == Magnitude(c.fields[6].num)
                IN /\ OneAppended(EntityNow(S).healEvents, EntityNext(S).healEvents,
                                  c.fields[1].num, amount)
                   /\ EntityNext(S).healingDone = EntityNow(S).healingDone + amount
                   /\ [EntityNext(S) EXCEPT !.healEvents = <<>>, !.healingDone = 0]
                         = [EntityNow(S) EXCEPT !.healEvents = <<>>, !.healingDone = 0]
                   /\ {S, T} \subseteq NamesNext
                   /\ \A name \in NamesNext \ {S} : EntityNext(name) = EntityNow(name)]_vars
    /\ []ScenarioB

\* C17 witness: the HEAL line from A to B (amount -20) has been parsed: A has
\* healing done 20, and B is registered with no heal event and healing done 0.
C17_Witness ==
    /\ pc = "loop"
    /\ Written(line).fields = <<NumV(1200), StrV(sHEAL), nA, nB, tFire, NumV(-20), tPool, tHit>>
    /\ EntityNow(nA.str).healingDone = 20
    /\ Last(EntityNow(nA.str).healEvents).amount = 20
    /\ \E i \in Registered :
          /\ entities[i].name = nB.str
          /\ entities[i].healEvents = <<>>
          /\ entities[i].healingDone = 0

\* C18: an accepted ENERGIZE line adds 1 to parsedLines and to the ENERGIZE
\* count (and to no other per-kind count) and widens the time bounds to
\* include its timestamp, but appends no event to any list of any entity and
\* changes no running total: every entity is as it was, one registered by the
\* line as getEntity creates it.
C18_EnergizeCountedOnly ==
    [][\A c \in {x \in ParsedCatalogue : x.fields[2].str = sENERGIZE} :
          Parsed(c) =>
             LET timestamp == c.fields[1].num IN
             /\ CountedParsed
             /\ globalStats'.byType =
                   [globalStats.byType EXCEPT ![sENERGIZE] = @ + 1]
             /\ timeBounds'.min # Null /\ timeBounds'.max # Null
             /\ timeBounds'.min.num <= timestamp /\ timestamp <= timeBounds'.max.num
             /\ timeBounds.min # Null =>
                   /\ timeBounds'.min.num <= timeBounds.min.num
                   /\ timeBounds'.max.num >= timeBounds.max.num
             /\ \A name \in NamesNext : EntityNext(name) = EntityNow(name)]_vars

\* C18 witness: an ENERGIZE line from B to A at 1200 is the only line parsed:
\* it is counted and sets the bounds, and B and A are registered with empty
\* lists and zero totals.
C18_Witness ==
    /\ pc = "loop"
    /\ Written(line).fields =
          <<NumV(1200), StrV(sENERGIZE), nB, nA, tFire, NumV(-5), tPool, tHit>>
    /\ globalStats.parsedLines = 1
    /\ globalStats.byType[sENERGIZE] = 1
    /\ timeBounds = [min |-> NumV(1200), max |-> NumV(1200)]
    /\ entities = <<NewEntity(nB.str), NewEntity(nA.str)>>

\* the lines of an effect kind with at least 6 fields and a number as timestamp
EffectLines ==
    {c \in Catalogue : /\ Len(c.fields) >= 6
                       /\ IsNumberField(c, 1)
                       /\ ~IsNumberField(c, 2)
                       /\ c.fields[2].str \in EffectTypes}

\* the numeric lists and totals of an entity
NumericPart(e) ==
    [damageDone |-> e.damageDone, healingDone |-> e.healingDone,
     damageReceived |-> e.damageReceived, damageEvents |-> e.damageEvents,
     healEvents |-> e.healEvents, damageTakenEvents |-> e.damageTakenEvents]

\* list `after` is list `before` with the event ev put at its end
Appended(before, after, ev) == after = Append(before, ev)

\* C19 (as claimed): an accepted BUFF (resp. DEBUFF) line with source S and
\* target T appends one event to the buffs-applied (resp. debuffs-applied)
\* list of S and the same event to the buffs-received (resp.
\* debuffs-received) list of T; no numeric list or running total of any
\* entity changes; the line is counted as parsed whatever its effect id is, and
\* the event carries the id as a number when the field is a number and as
\* the raw string of the field when it is not.
C19_EffectDualWrite ==
    [][\A c \in EffectLines :
          Parsed(c) =>
             LET S == c.fields[3].str
                 T == c.fields[4].str
                 buff == c.fields[2].str = sBUFF
                 applied == IF buff THEN "buffsApplied" ELSE "debuffsApplied"
                 received == IF buff THEN "buffsReceived" ELSE "debuffsReceived"
                 ev == Last(EntityNext(S)[applied])
             IN /\ CountedParsed
                /\ Appended(EntityNow(S)[applied], EntityNext(S)[applied], ev)
                /\ Appended(EntityNow(T)[received], EntityNext(T)[received], ev)
                /\ ev.timestamp = c.fields[1].num /\ ev.type = c.fields[2].str
                /\ ev.source = S /\ ev.target = T
                /\ ev.effectName = c.fields[5].str
                /\ ev.effectId = (IF IsNumberField(c, 6) THEN NumV(c.fields[6].num)
                                  ELSE StrV(c.fields[6].str))
                /\ \A name \in NamesNext :
                      NumericPart(EntityNext(name)) = NumericPart(EntityNow(name))]_vars

\* the seven event lists of an entity
EventLists ==
    {"damageEvents", "healEvents", "damageTakenEvents", "buffsApplied",
     "debuffsApplied", "buffsReceived", "debuffsReceived"}

\* list a is a prefix of list b
IsPrefix(a, b) == Len(a) <= Len(b) /\ SubSeq(b, 1, Len(a)) = a

\* C20: between two resets (in every step but the click that starts a load)
\* every registered name stays registered, at its place in the registry;
\* each of its event lists only grows at its end (the list before the step is
\* a prefix of the list after it) and none of its running totals decreases,
\* so looking up a registered name neither replaces the entity nor clears it.
C20_RegistryGrows ==
    [][~Click =>
          /\ Len(entities') >= Len(entities)
          /\ \A i \in Registered :
                /\ entities'[i].name = entities[i].name
                /\ \A l \in EventLists : IsPrefix(entities[i][l], entities'[i][l])
                /\ \A m \in Metrics : entities'[i][m] >= entities[i][m]]_vars

\* C20 witness: A and B, registered by a DMG line, are looked up again by a
\* HEAL line: both keep their place, A keeps its damage event and its damage
\* done 50 and gains a heal event, B keeps its damage-taken event.
C20_Witness ==
    /\ pc = "loop"
    /\ Written(line).fields = <<NumV(1200), StrV(sHEAL), nA, nB, tFire, NumV(-20), tPool, tHit>>
    /\ Len(entities) = 2
    /\ entities[1].name = nA.str /\ entities[2].name = nB.str
    /\ Len(entities[1].damageEvents) = 1 /\ entities[1].damageDone = 50
    /\ Len(entities[1].healEvents) = 1
    /\ Len(entities[2].damageTakenEvents) = 1 /\ entities[2].damageReceived = 50

\* the limits asked for: none, fewer than the sources, and the default
Limits == {0, 1, 2, DefaultLimit}

\* the damage-taken events of an entity that are in the current time frame
WindowedTaken(e) ==
    {k \in 1..Len(e.damageTakenEvents) :
        isInCurrentTimeFrame(timeFilter, e.damageTakenEvents[k].timestamp)}

\* the sources of those events
SourcesTaken(e) == {e.damageTakenEvents[k].source : k \in WindowedTaken(e)}

\* the sum of the amounts of those events that come from source
TakenFrom(e, source) ==
    SumSeq([k \in 1..Len(e.damageTakenEvents) |->
               IF k \in WindowedTaken(e) /\ e.damageTakenEvents[k].source = source
               THEN e.damageTakenEvents[k].amount ELSE 0])

Min(a, b) == IF a <= b THEN a ELSE b

\* C21: for every entity and every limit L the top damage sources have at
\* most L rows, one per distinct source of the windowed damage-taken events
\* (as many rows as there are sources, up to L; no source twice), the value
\* of a row is the sum of the windowed amounts from its source, the rows are
\* in non-increasing order of value, and a source left out has a sum that is
\* at most the value of every row.
C21_TopDamageSources ==
    \A i \in Registered : \A L \in Limits :
       \A rows \in {buildEntityTopDamageSources(entities[i], timeFilter, L)} :
          LET e == entities[i]
              sources == SourcesTaken(e)
          IN /\ Len(rows) <= L
             /\ Len(rows) = Min(L, Cardinality(sources))
             /\ \A r \in 1..Len(rows) :
                   \E source \in sources :
                      /\ rows[r].key = OrUnknown(source)
                      /\ rows[r].value = TakenFrom(e, source)
             /\ \A r1, r2 \in 1..Len(rows) :
                   /\ r1 # r2 => rows[r1].key # rows[r2].key
                   /\ r1 < r2 => rows[r1].value >= rows[r2].value
             /\ \A source \in sources :
                   (\A r \in 1..Len(rows) : rows[r].key # OrUnknown(source))
                      => \A r \in 1..Len(rows) : TakenFrom(e, source) <= rows[r].value

\* the list of applied events of an entity for a kind of effect
AppliedOf(e, type) == IF type = sBUFF THEN e.buffsApplied ELSE e.debuffsApplied

\* the effect names of the events of a list that are in the current time frame
WindowedNames(events) ==
    {events[k].effectName :
        k \in {j \in 1..Len(events) :
                  isInCurrentTimeFrame(timeFilter, events[j].timestamp)}}

\* the number of those events that carry the name
CountNamed(events, name) ==
    Cardinality({k \in 1..Len(events) :
                    /\ isInCurrentTimeFrame(timeFilter, events[k].timestamp)
                    /\ events[k].effectName = name})

\* C22: for every entity, the list of applied buffs and the list of applied
\* debuffs each have exactly one row per distinct effect name among the
\* windowed events of their kind, the row carries that name ("(unknown)" for
\* an empty name) and the number of those events, and the rows are in
\* non-increasing order of count; events of the other kind are not counted.
C22_AppliedEffects ==
    \A i \in Registered :
       \A effects \in {buildEntityAppliedBuffsByEffect(entities[i], timeFilter)} :
          \A type \in EffectTypes :
             LET rows == FilterType(effects, type)
                 events == AppliedOf(entities[i], type)
                 names == WindowedNames(events)
             IN /\ Len(rows) = Cardinality(names)
                /\ \A name \in names :
                      \E r \in 1..Len(rows) :
                         /\ rows[r].name = OrUnknown(name)
                         /\ rows[r].count = CountNamed(events, name)
                /\ \A r1, r2 \in 1..Len(rows) :
                      r1 < r2 => rows[r1].count >= rows[r2].count

\* C23: the queries and the operations of the time filter (the initial
\* window and the renderings at the end of a load, an explicit window whether
\* it is accepted or rejected, the reset, the details of an entity for a known
\* or an unknown name, each with the rankings or aggregates it computes) leave
\* the registry with all event lists and running totals, the global counters
\* and the time bounds as they are; so does every step that changes the
\* filter, the rankings or the details shown.
C23_QueriesKeepState ==
    /\ [][(OnLoadEnd \/ ApplyTimeFilter \/ ResetTimeFilter \/ ShowEntityDetails)
             => Engine' = Engine]_vars
    /\ [][(timeFilter' # timeFilter \/ tables' # tables \/ details' # details)
             => Engine' = Engine]_vars

\* C23 witness: on a log of two parsed lines the window [0, 1200] has been
\* set by hand (no line carries 1200), the rankings are rendered for it and
\* the details of A are shown (the hit by B at 0 is in the window, the debuff
\* A applies at 7200 is not), A being registered with its two events.
C23_Witness ==
    /\ pc = "idle"
    /\ globalStats.parsedLines = 2
    /\ timeFilter = [enabled |-> TRUE, start |-> NumV(0), end |-> NumV(1200)]
    /\ tables = renderTables(entities, timeFilter)
    /\ details.hint = [kind |-> "showing", name |-> nA.str]
    /\ details.container.topDamageSources = <<[key |-> nB.str, value |-> 50]>>
    /\ details.container.appliedDebuffs = <<>>
    /\ \E i \in Registered :
          /\ entities[i].name = nA.str
          /\ Len(entities[i].damageTakenEvents) = 1
          /\ Len(entities[i].debuffsApplied) = 1

\* C24: in every reachable state, if the time filter is enabled then the
\* time bounds are not null and min <= start <= end <= max.
C24_EnabledWindowInBounds ==
    timeFilter.enabled =>
       /\ timeBounds.min # Null /\ timeBounds.max # Null
       /\ timeFilter.start # Null /\ timeFilter.end # Null
       /\ timeBounds.min.num <= timeFilter.start.num
       /\ timeFilter.start.num <= timeFilter.end.num
       /\ timeFilter.end.num <= timeBounds.max.num

\* one iteration of the loop of onload
LoopStep == pc = "loop" /\ remaining' = remaining - 1

\* C25: after every processed line totalLines = parsedLines + skippedLines:
\* a line that is not blank raises totalLines by one and exactly one of
\* parsedLines and skippedLines by one, on every path through parseLine,
\* parseNumericEvent and parseEffectEvent; a blank line raises none.
C25_LineAccounting ==
    /\ [](globalStats.totalLines = globalStats.parsedLines + globalStats.skippedLines)
    /\ [][LoopStep =>
             IF IsBlank(line') THEN globalStats' = globalStats
             ELSE CountedParsed \/ CountedSkipped]_vars

\* C25 witness: a loop has visited a line that was parsed and then a line of
\* an unknown kind, which was skipped: two lines in all, one of each.
C25_Witness ==
    /\ pc = "loop"
    /\ fed = 2
    /\ Written(line).fields = <<NumV(5), tWord, nA, nB, tFire, NumV(1), tPool, tHit>>
    /\ globalStats.totalLines = 2
    /\ globalStats.parsedLines = 1
    /\ globalStats.skippedLines = 1

\* the filter states the sums are compared under: the current one, the
\* disabled one, and the windows with ends among WindowEnds and 5400
FilterStates ==
    {timeFilter, InitTimeFilter}
       \cup {Window(s, e) : s \in WindowEnds \cup {5400}, e \in WindowEnds}

\* the sum over all entities of the windowed amounts of one of their lists
TotalInTimeFrame(list, tf) ==
    SumSeq([i \in Registered |-> SumInTimeFrame(entities[i][list], tf)])

\* C26: in every reachable state the damage done summed over all entities is
\* the damage received summed over all entities, and so are the windowed
\* sums of damage done and damage received under every filter state.
C26_DamageConservation ==
    /\ SumSeq([i \in Registered |-> entities[i].damageDone])
          = SumSeq([i \in Registered |-> entities[i].damageReceived])
    /\ \A tf \in FilterStates :
          TotalInTimeFrame("damageEvents", tf) = TotalInTimeFrame("damageTakenEvents", tf)

\* C26 witness: A has hit B for 50 at 0 and B itself for 30 at 7200; the
\* totals are 80 and 80, and in the initial window [5400, 7200] 30 and 30.
C26_Witness ==
    /\ pc = "idle"
    /\ timeFilter = Window(5400, 7200)
    /\ SumSeq([i \in Registered |-> entities[i].damageDone]) = 80
    /\ SumSeq([i \in Registered |-> entities[i].damageReceived]) = 80
    /\ TotalInTimeFrame("damageEvents", timeFilter) = 30
    /\ TotalInTimeFrame("damageTakenEvents", timeFilter) = 30
    /\ \E i \in Registered : entities[i].name = nA.str /\ entities[i].damageDone = 50

\* the scheduling of the handlers: a handler that has started runs to its end
FairSpec == Spec /\ WF_vars(ParseLoop) /\ WF_vars(OnLoadEnd)

====
